---------------------------- MODULE Spec2Model ----------------------------
(***************************************************************************)
(* Model of the FocosX desktop storage adapter                             *)
(* (focosx_desktop/src-tauri/src/lib.rs).                                  *)
(*                                                                         *)
(* Strings that the code inspects byte by byte (names, paths, ids) are     *)
(* sequences of byte values.  A Rust Option is a sequence of length 0      *)
(* (None) or 1 (Some).  A Result is a record [ok, val]; the value of an    *)
(* error is << >>, or << "NotFound" >> for io::ErrorKind::NotFound.        *)
(* The host is a POSIX system: '/' is the only path separator.             *)
(***************************************************************************)
EXTENDS Integers, Sequences, FiniteSets, TLC

\* ------------------------------------------------------------------ bytes
Dot == 46
Slash == 47
Colon == 58
Backslash == 92

\* ----------------------------------------------------------------- bounds
\* Most entries (files and directories) of the filesystem besides "/".
MaxEntries == 4

\* ------------------------------------------------------------ Option/Result
None == << >>
Some(x) == << x >>
IsSome(o) == Len(o) = 1
Unwrap(o) == o[1]

Ok(v) == [ok |-> TRUE, val |-> v]
Err == [ok |-> FALSE, val |-> << >>]
ErrNotFound == [ok |-> FALSE, val |-> << "NotFound" >>]
IsNotFound(r) == ~r.ok /\ r.val = << "NotFound" >>
Unit == << >>

\* ---------------------------------------------------------------- strings
StartsWith(s, c) == Len(s) > 0 /\ s[1] = c

\* A test no string passes.
EndsWithNothing(s, suf) == FALSE

EndsWith(s, suf) ==
    /\ Len(s) >= Len(suf)
    /\ SubSeq(s, Len(s) - Len(suf) + 1, Len(s)) = suf

\* Index of the first occurrence of byte c in s, 0 when there is none.
FindFirst(s, c) ==
    IF \E i \in 1..Len(s) : s[i] = c
    THEN CHOOSE i \in 1..Len(s) : s[i] = c /\ \A j \in 1..(i - 1) : s[j] # c
    ELSE 0

\* str::split_once(c): None, or Some(<<before, after>>) around the first c.
SplitOnce(s, c) ==
    LET i == FindFirst(s, c)
    IN  IF i = 0 THEN None
        ELSE Some(<< SubSeq(s, 1, i - 1), SubSeq(s, i + 1, Len(s)) >>)

\* str::replace(from, to) for single bytes.
Replace(s, from, to) == [i \in 1..Len(s) |-> IF s[i] = from THEN to ELSE s[i]]

\* Ordering of str::cmp: lexicographic on bytes. -1, 0 or 1.
RECURSIVE StrCmpFrom(_, _, _)
StrCmpFrom(a, b, i) ==
    IF i > Len(a) /\ i > Len(b) THEN 0
    ELSE IF i > Len(a) THEN -1
    ELSE IF i > Len(b) THEN 1
    ELSE IF a[i] < b[i] THEN -1
    ELSE IF a[i] > b[i] THEN 1
    ELSE StrCmpFrom(a, b, i + 1)

StrCmp(a, b) == StrCmpFrom(a, b, 1)

\* The segments of s between occurrences of byte c (empty segments kept).
RECURSIVE SplitAll(_, _)
SplitAll(s, c) ==
    LET i == FindFirst(s, c)
    IN  IF i = 0 THEN << s >>
        ELSE << SubSeq(s, 1, i - 1) >> \o SplitAll(SubSeq(s, i + 1, Len(s)), c)

RECURSIVE JoinWith(_, _)
JoinWith(segs, c) ==
    IF Len(segs) = 0 THEN << >>
    ELSE IF Len(segs) = 1 THEN segs[1]
    ELSE segs[1] \o << c >> \o JoinWith(Tail(segs), c)

\* format!("{}:{}", a, b)
FormatId(vault_id, raw_id) == vault_id \o << Colon >> \o raw_id

\* ------------------------------------------------------------------ paths
\* A std::path::Path is the sequence of its components; an absolute path
\* starts with the root component RootDir.  ".." is kept as a component,
\* "." and empty segments are dropped, as Path::components does.
RootDir == << Slash >>
CurDirName == << Dot >>
ParentDirName == << Dot, Dot >>

IsAbsoluteStr(s) == StartsWith(s, Slash)

SelectSeg(segs) == SelectSeq(segs, LAMBDA x : x # << >> /\ x # CurDirName)

Components(s) ==
    IF IsAbsoluteStr(s)
    THEN << RootDir >> \o SelectSeg(SplitAll(s, Slash))
    ELSE SelectSeg(SplitAll(s, Slash))

\* Path::is_absolute
IsAbsolute(p) == Len(p) > 0 /\ p[1] = RootDir

\* PathBuf::push: an absolute argument replaces the path.
Push(p, s) == IF IsAbsoluteStr(s) THEN Components(s) ELSE p \o Components(s)

\* Path::parent: None for the root and for the empty path.
Parent(p) ==
    IF Len(p) = 0 \/ p = << RootDir >> THEN None
    ELSE Some(SubSeq(p, 1, Len(p) - 1))

\* Path::strip_prefix: Err unless base is a component-wise prefix of p.
StripPrefix(p, base) ==
    IF Len(base) <= Len(p) /\ SubSeq(p, 1, Len(base)) = base
    THEN Ok(SubSeq(p, Len(base) + 1, Len(p)))
    ELSE Err

\* relative_path.to_string_lossy().to_string().replace("\\", "/")
RawId(rel) == Replace(JoinWith(rel, Slash), Backslash, Slash)

\* ------------------------------------------------------------------ texts
\* A text (the content of a file, a JSON string passed to or returned by a
\* command) is empty, an opaque document named by its tag, or the JSON
\* serialization of a list of nodes.
EmptyText == [kind |-> "empty", tag |-> "", nodes |-> << >>]
Plain(t) == [kind |-> "plain", tag |-> t, nodes |-> << >>]
\* serde_json::to_string(&nodes)
ToJson(nodes) == [kind |-> "nodes", tag |-> "", nodes |-> nodes]

\* ------------------------------------------------------------ filesystem
\* The filesystem is a function from locations (the sequence of names from
\* the root, no ".." among them) to entries.  The root << >> is a directory.
DirEntry == [kind |-> "dir", text |-> EmptyText]
FileEntry(t) == [kind |-> "file", text |-> t]
\* A directory whose mode lacks the read bit: a directory to every call
\* but the one that lists it.
DeniedDir == [kind |-> "dir", text |-> Plain("d-wx")]

Exists(f, loc) == loc \in DOMAIN f
IsDirAt(f, loc) == loc \in DOMAIN f /\ f[loc].kind = "dir"
IsFileAt(f, loc) == loc \in DOMAIN f /\ f[loc].kind = "file"

IsPrefix(a, b) == Len(a) <= Len(b) /\ SubSeq(b, 1, Len(a)) = a
Under(loc, top) == IsPrefix(top, loc)
ChildrenOf(f, loc) == {l \in DOMAIN f : Len(l) = Len(loc) + 1 /\ IsPrefix(loc, l)}

\* The working directory against which the OS resolves a relative path.
Cwd == << >>

\* Path resolution of the kernel: every component that is followed must be
\* an existing directory; ".." steps to the parent; the last component may
\* be absent.  Result: Ok(location), ErrNotFound (ENOENT) or Err (ENOTDIR).
RECURSIVE Walk(_, _, _)
Walk(f, cur, comps) ==
    IF Len(comps) = 0 THEN Ok(cur)
    ELSE IF ~Exists(f, cur) THEN ErrNotFound
    ELSE IF ~IsDirAt(f, cur) THEN Err
    ELSE IF comps[1] = ParentDirName
         THEN Walk(f, IF Len(cur) = 0 THEN cur ELSE SubSeq(cur, 1, Len(cur) - 1),
                   Tail(comps))
         ELSE Walk(f, cur \o << comps[1] >>, Tail(comps))

Resolve(f, p) ==
    IF IsAbsolute(p) THEN Walk(f, << >>, Tail(p)) ELSE Walk(f, Cwd, p)

\* Path::exists, Path::is_dir.  Here and below, an operator XAt takes the
\* resolved path r of X as an argument.
ExistsAt(f, r) == r.ok /\ Exists(f, r.val)
IsDirAtPath(f, r) == r.ok /\ IsDirAt(f, r.val)
PathExists(f, p) == ExistsAt(f, Resolve(f, p))
PathIsDir(f, p) == IsDirAtPath(f, Resolve(f, p))

Put(f, loc, e) == [l \in DOMAIN f \cup {loc} |-> IF l = loc THEN e ELSE f[l]]
RemoveTree(f, loc) == [l \in {x \in DOMAIN f : ~Under(x, loc)} |-> f[l]]

\* The primitives that change the filesystem return [ok, val] with val the
\* filesystem after the call, also when the call fails.
Fail(f) == [ok |-> FALSE, val |-> f]

\* fs::create_dir_all: creates every missing directory along the path;
\* fails when a component exists and is not a directory.
RECURSIVE MkdirWalk(_, _, _)
MkdirWalk(f, cur, comps) ==
    IF Len(comps) = 0 THEN Ok(f)
    ELSE IF comps[1] = ParentDirName
         THEN MkdirWalk(f, IF Len(cur) = 0 THEN cur ELSE SubSeq(cur, 1, Len(cur) - 1),
                        Tail(comps))
         ELSE LET nxt == cur \o << comps[1] >>
              IN  IF IsDirAt(f, nxt) THEN MkdirWalk(f, nxt, Tail(comps))
                  ELSE IF Exists(f, nxt) THEN Fail(f)
                  ELSE MkdirWalk(Put(f, nxt, DirEntry), nxt, Tail(comps))

CreateDirAll(f, p) ==
    IF IsAbsolute(p) THEN MkdirWalk(f, << >>, Tail(p)) ELSE MkdirWalk(f, Cwd, p)

\* fs::write: creates or truncates the file; fails when the parent
\* directory is missing or the path names a directory (or ends in "..").
FsWriteAt(f, p, t, r) ==
        IF ~r.ok \/ Len(p) = 0 \/ p[Len(p)] = ParentDirName THEN Fail(f)
        ELSE IF Len(r.val) = 0 \/ IsDirAt(f, r.val) THEN Fail(f)
        ELSE IF ~IsDirAt(f, SubSeq(r.val, 1, Len(r.val) - 1)) THEN Fail(f)
        ELSE Ok(Put(f, r.val, FileEntry(t)))

FsWrite(f, p, t) == FsWriteAt(f, p, t, Resolve(f, p))

\* fs::read_to_string: Ok(text), ErrNotFound, or Err (a directory, ENOTDIR).
FsReadToStringAt(f, r) ==
    IF ~r.ok THEN r
    ELSE IF IsFileAt(f, r.val) THEN Ok(f[r.val].text)
    ELSE IF IsDirAt(f, r.val) THEN Err
    ELSE ErrNotFound

FsReadToString(f, p) == FsReadToStringAt(f, Resolve(f, p))

\* fs::remove_file (unlink): only a file can be removed.
FsRemoveFileAt(f, r) ==
    IF r.ok /\ IsFileAt(f, r.val) THEN Ok(RemoveTree(f, r.val)) ELSE Fail(f)

FsRemoveFile(f, p) == FsRemoveFileAt(f, Resolve(f, p))

\* A removal that removes nothing and reports success.
RemoveNothing(f, p) == Ok(f)

\* fs::remove_dir_all: removes everything below the directory, then the
\* directory itself with rmdir, which fails for "/" and for a path that
\* ends in "..".
FsRemoveDirAllAt(f, p, r) ==
    IF ~(r.ok /\ IsDirAt(f, r.val)) THEN Fail(f)
    ELSE IF Len(r.val) = 0 \/ p[Len(p)] = ParentDirName
         THEN Fail(Put(RemoveTree(f, r.val), r.val, DirEntry))
         ELSE Ok(RemoveTree(f, r.val))

FsRemoveDirAll(f, p) == FsRemoveDirAllAt(f, p, Resolve(f, p))

\* fs::rename (rename(2)): atomic; a file replaces a file, a directory
\* replaces an empty directory; the destination's parent must exist.
Moved(f, from, to) ==
    LET kept == {l \in DOMAIN f : ~Under(l, from) /\ ~Under(l, to)}
        moved == {to \o SubSeq(l, Len(from) + 1, Len(l)) : l \in {x \in DOMAIN f : Under(x, from)}}
    IN  [l \in kept \cup moved |->
            IF l \in moved THEN f[from \o SubSeq(l, Len(to) + 1, Len(l))] ELSE f[l]]

FsRenameAt(f, old, new, ro, rn) ==
        IF ~ro.ok \/ ~rn.ok THEN Fail(f)
        ELSE IF ~Exists(f, ro.val) \/ Len(ro.val) = 0 \/ Len(rn.val) = 0 THEN Fail(f)
        ELSE IF Len(old) = 0 \/ Len(new) = 0 THEN Fail(f)
        ELSE IF old[Len(old)] = ParentDirName \/ new[Len(new)] = ParentDirName THEN Fail(f)
        ELSE IF ~IsDirAt(f, SubSeq(rn.val, 1, Len(rn.val) - 1)) THEN Fail(f)
        ELSE IF ro.val = rn.val THEN Ok(f)
        ELSE IF Under(rn.val, ro.val) \/ Under(ro.val, rn.val) THEN Fail(f)
        ELSE IF IsFileAt(f, ro.val) /\ IsDirAt(f, rn.val) THEN Fail(f)
        ELSE IF IsDirAt(f, ro.val) /\ IsFileAt(f, rn.val) THEN Fail(f)
        ELSE IF IsDirAt(f, ro.val) /\ IsDirAt(f, rn.val) /\ ChildrenOf(f, rn.val) # {} THEN Fail(f)
        ELSE Ok(Moved(f, ro.val, rn.val))

FsRename(f, old, new) == FsRenameAt(f, old, new, Resolve(f, old), Resolve(f, new))


\* ------------------------------------------------- application data store
\* The documents below base_dir(): vaults.json, trees/<id>.json and
\* contents/<id>.json.  vaults.json is empty (missing), a JSON array of
\* descriptors [id, path], or text that does not parse as JSON.  trees and
\* contents map the ids that have a file to its text.
\* deleted remembers the last successful delete_node_cmd of a folder node:
\* its id, the ids of the nodes it removed, the ids of the other nodes, and
\* whether a delete or a content save was called since; a later create or
\* rename call forgets it.
\* scan is a load_tree that scans the vault directory one system call at a
\* time: its position (pc, stack of scan_directory frames), its result, the
\* filesystem it started on and whether a rename was called while it ran.
\* plugins maps the ids that have a file workspace_plugins/<id>.json to its
\* text.  codec is one id on its way through the codec: a vault id and a
\* relative path, the id joined from them, and the pair split from the id.
VARIABLES fs, vaults, trees, contents, deleted, scan, plugins, codec

vars == << fs, vaults, trees, contents, deleted, scan, plugins, codec >>

NoFiles == [x \in {} |-> EmptyText]
Store(m, k, t) == [x \in DOMAIN m \cup {k} |-> IF x = k THEN t ELSE m[x]]

\* A read that finds no document.
ReadNothing(m, k) == EmptyText

\* read_text_file on a document of the store: a missing file reads as "".
ReadStore(m, k) == IF k \in DOMAIN m THEN m[k] ELSE EmptyText

\* read_text_file / write_text_file on the real filesystem.
ReadTextFileOf(r) == IF r.ok THEN r ELSE IF IsNotFound(r) THEN Ok(EmptyText) ELSE Err
ReadTextFile(f, p) == ReadTextFileOf(FsReadToString(f, p))

\* ensure_dir
EnsureDir(f, p) == CreateDirAll(f, p)

\* fs::write after the parent directory was ensured with outcome d.
WriteAfter(d, p, t) == IF ~d.ok THEN d ELSE FsWrite(d.val, p, t)

EnsureParent(f, par) == IF IsSome(par) THEN EnsureDir(f, Unwrap(par)) ELSE Ok(f)

WriteTextFile(f, p, t) == WriteAfter(EnsureParent(f, Parent(p)), p, t)

\* The descriptors of vaults.json whose "id" is vault_id and that have a
\* "path" string, as indices into the array.
Matching(vs, vault_id) ==
    {i \in 1..Len(vs.arr) : vs.arr[i].id = vault_id /\ IsSome(vs.arr[i].path)}

Min(S) == CHOOSE x \in S : \A y \in S : x <= y
Max(S) == CHOOSE x \in S : \A y \in S : x >= y

\* --------------------------------------------------------------- scanning
FileSystemNode(id, name, node_type, children, parent_id) ==
    [id |-> id, name |-> name, node_type |-> node_type, children |-> children,
     content |-> None, parent_id |-> parent_id]

DotCanvas == << 46, 99, 97, 110, 118, 97, 115 >>

\* The comparator of nodes.sort_by: -1 (Less), 0 (Equal), 1 (Greater).
NodeCmp(a, b) ==
    LET a_is_folder == a.node_type = "FOLDER"
        b_is_folder == b.node_type = "FOLDER"
    IN  IF a_is_folder /\ ~b_is_folder THEN -1
        ELSE IF ~a_is_folder /\ b_is_folder THEN 1
        ELSE StrCmp(a.name, b.name)

\* slice::sort_by is a stable sort: x is inserted behind every element that
\* does not compare Greater than it.
RECURSIVE InsertSorted(_, _)
InsertSorted(sorted, x) ==
    IF Len(sorted) = 0 THEN << x >>
    ELSE IF NodeCmp(sorted[Len(sorted)], x) <= 0 THEN Append(sorted, x)
    ELSE Append(InsertSorted(SubSeq(sorted, 1, Len(sorted) - 1), x), sorted[Len(sorted)])

RECURSIVE SortFrom(_, _, _)
SortFrom(nodes, i, acc) ==
    IF i > Len(nodes) THEN acc ELSE SortFrom(nodes, i + 1, InsertSorted(acc, nodes[i]))

\* A list left in the order in which its elements were collected.
KeepOrder(nodes) == nodes

SortNodes(nodes) == SortFrom(nodes, 1, << >>)

\* The names of a set of locations in the order ord ranks them: the order in
\* which the OS hands out the entries of a directory is not specified.
RECURSIVE InOrder(_, _)
InOrder(S, ord) ==
    IF S = {} THEN << >>
    ELSE LET m == CHOOSE x \in S : \A y \in S : ord[x[Len(x)]] <= ord[y[Len(y)]]
         IN  << m[Len(m)] >> \o InOrder(S \ {m}, ord)

\* A listing that hands out no entry where it cannot read.
ReadWhatItCan(f, p, ord) ==
    LET r == Resolve(f, p)
    IN  IF r.ok /\ r.val \in DOMAIN f /\ f[r.val] = DirEntry
        THEN Ok(InOrder(ChildrenOf(f, r.val), ord)) ELSE Ok(<< >>)

\* fs::read_dir: Err unless the path is a directory that may be listed.
ReadDir(f, p, ord) ==
    LET r == Resolve(f, p)
    IN  IF r.ok /\ r.val \in DOMAIN f /\ f[r.val] = DirEntry
        THEN Ok(InOrder(ChildrenOf(f, r.val), ord)) ELSE Err

\* An entry nobody skips.
NeverHidden(name) == FALSE

\* The entries scan_directory skips: the name starts with '.'.
IsHidden(name) == StartsWith(name, Dot)

RECURSIVE ScanDirectory(_, _, _, _, _, _)
RECURSIVE ScanEntries(_, _, _, _, _, _, _, _)

\* The loop of scan_directory over entries[i..], nodes collected so far.
ScanEntries(f, root, current, parent_id, id_prefix, ord, entries, nodes) ==
    IF Len(entries) = 0 THEN Ok(SortNodes(nodes))
    ELSE
      LET name == entries[1]
          path == current \o << name >>
          rest == Tail(entries)
      IN  IF IsHidden(name)
          THEN ScanEntries(f, root, current, parent_id, id_prefix, ord, rest, nodes)
          ELSE
            LET relative_path == StripPrefix(path, root)
                raw_id == RawId(relative_path.val)
                id == id_prefix \o raw_id
                is_dir == PathIsDir(f, path)
                node_type == IF is_dir THEN "FOLDER"
                             ELSE IF EndsWith(name, DotCanvas) THEN "CANVAS"
                             ELSE "FILE"
                sub == IF is_dir
                       THEN ScanDirectory(f, root, path, Some(id), id_prefix, ord)
                       ELSE Ok(<< >>)
                children == IF is_dir THEN Some(sub.val) ELSE None
            IN  IF ~relative_path.ok \/ ~sub.ok THEN Err
                ELSE ScanEntries(f, root, current, parent_id, id_prefix, ord, rest,
                         Append(nodes, FileSystemNode(id, name, node_type, children, parent_id)))

ScanDirectory(f, root, current, parent_id, id_prefix, ord) ==
    LET entries == ReadDir(f, current, ord)
    IN  IF ~entries.ok THEN Err
        ELSE ScanEntries(f, root, current, parent_id, id_prefix, ord, entries.val, << >>)

\* ------------------------------------------------------------------ trees
\* The descriptors load_tree scans: id matches, path absolute and existing.
Scannable(f, vs, vault_id) ==
    {i \in Matching(vs, vault_id) :
        LET candidate == Components(Unwrap(vs.arr[i].path))
        IN  IsAbsolute(candidate) /\ PathExists(f, candidate)}

\* load_tree: the scan of the first such descriptor, else the persisted
\* document trees/<vault_id>.json.
load_tree(f, vs, tr, vault_id, ord) ==
    IF vs.kind = "array" /\ Scannable(f, vs, vault_id) # {}
    THEN LET candidate == Components(Unwrap(vs.arr[Min(Scannable(f, vs, vault_id))].path))
             nodes == ScanDirectory(f, candidate, candidate, None,
                                    vault_id \o << Colon >>, ord)
         IN  IF nodes.ok THEN Ok(ToJson(nodes.val)) ELSE Err
    ELSE Ok(ReadStore(tr, vault_id))

\* A save that always overwrites trees/<vault_id>.json.
AlwaysStore(vs, tr, vault_id, json) == Ok(Store(tr, vault_id, json))

\* save_tree: Ok without writing when a matching descriptor has an absolute
\* path, else trees/<vault_id>.json is overwritten.  Result value: the store.
save_tree(vs, tr, vault_id, json) ==
    IF /\ vs.kind = "array"
       /\ \E i \in Matching(vs, vault_id) : IsAbsolute(Components(Unwrap(vs.arr[i].path)))
    THEN Ok(tr)
    ELSE Ok(Store(tr, vault_id, json))

\* --------------------------------------------------------------- contents
DotFocosx == << 46, 102, 111, 99, 111, 115, 120 >>
ContentsName == << 99, 111, 110, 116, 101, 110, 116, 115 >>
TreeJsonName == << 116, 114, 101, 101, 46, 106, 115, 111, 110 >>
DotJson == << 46, 106, 115, 111, 110 >>

\* Result::unwrap_or_default of a read.
TextOr(r) == IF r.ok THEN r.val ELSE EmptyText

\* The tree document find_vault_folder_for_file reads for descriptor v:
\* <path>/.focosx/tree.json for an absolute path, trees/<id>.json for a
\* relative one, "" without a path or when the read fails.
TreeJsonAt(f, tr, v, candidate) ==
    IF IsAbsolute(candidate)
    THEN TextOr(ReadTextFile(f, candidate \o << DotFocosx, TreeJsonName >>))
    ELSE ReadStore(tr, v.id)

TreeJsonOf(f, tr, v) ==
    IF ~IsSome(v.path) THEN EmptyText
    ELSE TreeJsonAt(f, tr, v, Components(Unwrap(v.path)))

\* Whether the tree document is a JSON array with file_id among its
\* top-level nodes.
HasTopLevel(tree_json, file_id) ==
    /\ tree_json.kind = "nodes"
    /\ \E k \in 1..Len(tree_json.nodes) : tree_json.nodes[k].id = file_id

\* Whether descriptor v counts as holding file_id: its tree document lists
\* file_id and its path is absolute.
HoldsFile(f, tr, v, file_id) ==
    /\ HasTopLevel(TreeJsonOf(f, tr, v), file_id)
    /\ IsSome(v.path)
    /\ IsAbsolute(Components(Unwrap(v.path)))

FirstHit(vs, hits) ==
    IF hits = {} THEN Ok(None)
    ELSE Ok(Some(Components(Unwrap(vs.arr[Min(hits)].path))))

\* find_vault_folder_for_file: Ok(Some(path)) for the first such descriptor,
\* Ok(None) when there is none, Err when vaults.json does not parse.
find_vault_folder_for_file(f, vs, tr, file_id) ==
    IF vs.kind = "empty" THEN Ok(None)
    ELSE IF vs.kind = "malformed" THEN Err
    ELSE FirstHit(vs, {i \in 1..Len(vs.arr) : HoldsFile(f, tr, vs.arr[i], file_id)})

\* No id names a file of a vault.
NoDirectPath(vs, sp) == None

\* The file a "vaultId:path" id names: Some(path) when the id has a colon
\* and a descriptor with that id has a path, the first one's path joined
\* with the part behind the colon.
DirectPathOf(vs, sp) ==
    IF IsSome(sp) /\ vs.kind = "array" /\ Matching(vs, Unwrap(sp)[1]) # {}
    THEN Some(Push(Components(Unwrap(vs.arr[Min(Matching(vs, Unwrap(sp)[1]))].path)),
                   Unwrap(sp)[2]))
    ELSE None

DirectPath(vs, file_id) == DirectPathOf(vs, SplitOnce(file_id, Colon))

\* vaults.json does not parse and the id has a colon: the command fails.
Unparsed(vs, file_id) == IsSome(SplitOnce(file_id, Colon)) /\ vs.kind = "malformed"

ContentsDir(vpath) == vpath \o << DotFocosx, ContentsName >>

\* The legacy branch of load_file_content, f2 the filesystem after
\* ensure_dir(contents_dir), whose outcome is ignored.
LegacyLoad(f2, contents_dir, file_id) ==
    [res |-> ReadTextFile(f2, Push(contents_dir, file_id \o DotJson)), fs |-> f2]

\* A load whose legacy branch reads without ensuring the directory.
LoadAndLeave(f, ct, file_id, unparsed, direct, found) ==
    IF unparsed THEN [res |-> Err, fs |-> f]
    ELSE IF IsSome(direct) THEN [res |-> ReadTextFile(f, Unwrap(direct)), fs |-> f]
    ELSE IF found.ok /\ IsSome(found.val)
    THEN LegacyLoad(f, ContentsDir(Unwrap(found.val)), file_id)
    ELSE [res |-> Ok(ReadStore(ct, file_id)), fs |-> f]

LoadFrom(f, ct, file_id, unparsed, direct, found) ==
    IF unparsed THEN [res |-> Err, fs |-> f]
    ELSE IF IsSome(direct) THEN [res |-> ReadTextFile(f, Unwrap(direct)), fs |-> f]
    ELSE IF found.ok /\ IsSome(found.val)
    THEN LegacyLoad(EnsureDir(f, ContentsDir(Unwrap(found.val))).val,
                    ContentsDir(Unwrap(found.val)), file_id)
    ELSE [res |-> Ok(ReadStore(ct, file_id)), fs |-> f]

\* load_file_content.  Result [res, fs]: the legacy branch creates
\* <vault>/.focosx/contents before it reads.
load_file_content(f, vs, tr, ct, file_id) ==
    LoadFrom(f, ct, file_id, Unparsed(vs, file_id), DirectPath(vs, file_id),
             find_vault_folder_for_file(f, vs, tr, file_id))

\* ensure_dir(p)? and write_text_file(p, t) after a step with outcome d.
EnsureAfter(d, p) == IF d.ok THEN EnsureDir(d.val, p) ELSE d
WriteTextAfter(d, p, t) == IF d.ok THEN WriteTextFile(d.val, p, t) ELSE d

\* The outcome of a save whose write had outcome w.
Saved(w, ct) == [res |-> IF w.ok THEN Ok(Unit) ELSE Err, fs |-> w.val, contents |-> ct]

\* The legacy branch of save_file_content.
LegacySave(f, vpath, file_id, json) ==
    WriteTextAfter(EnsureAfter(EnsureDir(f, vpath \o << DotFocosx >>), ContentsDir(vpath)),
                   Push(ContentsDir(vpath), file_id \o DotJson), json)

SaveFrom(f, ct, file_id, json, unparsed, direct, found) ==
    IF unparsed THEN [res |-> Err, fs |-> f, contents |-> ct]
    ELSE IF IsSome(direct) THEN Saved(WriteTextFile(f, Unwrap(direct), json), ct)
    ELSE IF found.ok /\ IsSome(found.val)
    THEN Saved(LegacySave(f, Unwrap(found.val), file_id, json), ct)
    ELSE [res |-> Ok(Unit), fs |-> f, contents |-> Store(ct, file_id, json)]

\* save_file_content.  Result [res, fs, contents].
save_file_content(f, vs, tr, ct, file_id, json) ==
    SaveFrom(f, ct, file_id, json, Unparsed(vs, file_id), DirectPath(vs, file_id),
             find_vault_folder_for_file(f, vs, tr, file_id))

\* ---------------------------------------------------------------- mutators
\* The vault path create/delete/rename use: the last descriptor whose id
\* matches and that has a path; Err when vaults.json is empty or does not
\* parse, or no descriptor matches.
VaultPath(vs, vault_id) ==
    IF vs.kind # "array" \/ Matching(vs, vault_id) = {} THEN Err
    ELSE Ok(Components(Unwrap(vs.arr[Max(Matching(vs, vault_id))].path)))

\* The path an id addresses below root: the part behind the first colon,
\* or the whole id when it has no colon, pushed onto root.
IdPathOf(id, sp) == IF IsSome(sp) THEN Unwrap(sp)[2] ELSE id
IdPath(id) == IdPathOf(id, SplitOnce(id, Colon))
PushId(root, id) == Push(root, IdPath(id))

\* The result of a create or rename whose filesystem step had outcome done.
NodeResult(vault_id, done, relative_path) ==
    IF ~done.ok \/ ~relative_path.ok THEN [res |-> Err, fs |-> done.val]
    ELSE [res |-> Ok(FormatId(vault_id, RawId(relative_path.val))), fs |-> done.val]

TargetPath(root, parent_id, name) ==
    Push(IF IsSome(parent_id) THEN PushId(root, Unwrap(parent_id)) ELSE root, name)

\* A create that refuses a target that is already there.
MakeNew(f, target_path, node_type) ==
    IF PathExists(f, target_path) THEN Fail(f)
    ELSE IF node_type = "FOLDER" THEN EnsureDir(f, target_path)
    ELSE WriteAfter(EnsureParent(f, Parent(target_path)), target_path, EmptyText)

\* A create that leaves a file that is already there as it is.
MakeOrKeep(f, target_path, node_type) ==
    IF node_type = "FOLDER" THEN EnsureDir(f, target_path)
    ELSE IF PathExists(f, target_path) /\ ~PathIsDir(f, target_path) THEN Ok(f)
    ELSE WriteAfter(EnsureParent(f, Parent(target_path)), target_path, EmptyText)

\* ensure_dir(target) for a FOLDER; otherwise ensure_dir(parent) and
\* fs::write(target, "").
Make(f, target_path, node_type) ==
    IF node_type = "FOLDER" THEN EnsureDir(f, target_path)
    ELSE WriteAfter(EnsureParent(f, Parent(target_path)), target_path, EmptyText)

CreateAt(f, root, vault_id, target_path, node_type) ==
    IF ~PathExists(f, root) THEN [res |-> Err, fs |-> f]
    ELSE NodeResult(vault_id, Make(f, target_path, node_type), StripPrefix(target_path, root))

CreateIn(f, vault_path, vault_id, parent_id, name, node_type) ==
    IF ~vault_path.ok THEN [res |-> Err, fs |-> f]
    ELSE CreateAt(f, vault_path.val, vault_id,
                  TargetPath(vault_path.val, parent_id, name), node_type)

\* create_node_cmd.  Result [res, fs].
create_node_cmd(f, vs, vault_id, parent_id, name, node_type) ==
    CreateIn(f, VaultPath(vs, vault_id), vault_id, parent_id, name, node_type)

Removed(removed) == [res |-> IF removed.ok THEN Ok(Unit) ELSE Err, fs |-> removed.val]

DeleteAt(f, target_path) ==
    IF PathIsDir(f, target_path) THEN FsRemoveDirAll(f, target_path)
    ELSE FsRemoveFile(f, target_path)

DeleteIn(f, vault_path, id) ==
    IF ~vault_path.ok THEN [res |-> Err, fs |-> f]
    ELSE Removed(DeleteAt(f, PushId(vault_path.val, id)))

\* delete_node_cmd.  Result [res, fs].
delete_node_cmd(f, vs, vault_id, id) == DeleteIn(f, VaultPath(vs, vault_id), id)

RenameTo(f, root, vault_id, old_path, new_path) ==
    NodeResult(vault_id, FsRename(f, old_path, new_path), StripPrefix(new_path, root))

RenameAt(f, root, vault_id, old_path, parent, new_name) ==
    IF ~IsSome(parent) THEN [res |-> Err, fs |-> f]
    ELSE RenameTo(f, root, vault_id, old_path, Push(Unwrap(parent), new_name))

RenameIn(f, vault_path, vault_id, old_path, new_name) ==
    IF ~vault_path.ok THEN [res |-> Err, fs |-> f]
    ELSE RenameAt(f, vault_path.val, vault_id, old_path, Parent(old_path), new_name)

\* rename_node_cmd.  Result [res, fs].
rename_node_cmd(f, vs, vault_id, id, new_name) ==
    RenameIn(f, VaultPath(vs, vault_id), vault_id,
             PushId(VaultPath(vs, vault_id).val, id), new_name)

\* ----------------------------------------------------------------- vaults
\* vaults.json as the commands read it: missing or blank, text that does
\* not parse, or an array of descriptors.
EmptyRegistry == [kind |-> "empty", arr |-> << >>]
Malformed == [kind |-> "malformed", arr |-> << >>]
Registry(arr) == [kind |-> "array", arr |-> arr]

\* json!({"id": id, "name": name, "path": path, "createdAt": ...}); only
\* "id" and "path" are ever read.
Descriptor(id, path) == [id |-> id, path |-> Some(path)]

\* save_vaults: vaults.json is overwritten with json.
save_vaults(json) == Ok(json)

\* A create that persists the new descriptor alone.
ForgetOthers(vs, id, path) ==
    [res |-> Ok(id), vaults |-> Registry(<< Descriptor(id, path) >>)]

\* create_vault_at_path, id the uuid it draws.  Result [res, vaults].
create_vault_at_path(vs, id, path) ==
    IF vs.kind = "malformed" THEN [res |-> Err, vaults |-> vs]
    ELSE [res |-> Ok(id), vaults |-> Registry(Append(vs.arr, Descriptor(id, path)))]

\* A removal that keeps the document.
KeepAll(m, k) == m

\* fs::remove_file on a document of the store; the outcome is dropped.
Drop(m, k) == [x \in DOMAIN m \ {k} |-> m[x]]

\* delete_vault.  Result [res, fs, trees, plugins].
delete_vault(f, tr, wp, vault_id) ==
    [res |-> Ok(Unit), fs |-> f, trees |-> Drop(tr, vault_id), plugins |-> Drop(wp, vault_id)]

get_workspace_plugin_ids(wp, vault_id) == Ok(ReadStore(wp, vault_id))
save_workspace_plugin_ids(wp, vault_id, json) == Ok(Store(wp, vault_id, json))

\* save_tree_to_vault_path: <vault_folder>/.focosx/tree.json is written.
save_tree_to_vault_path(f, vault_folder, json) ==
    WriteTextAfter(EnsureDir(f, Components(vault_folder) \o << DotFocosx >>),
                   Components(vault_folder) \o << DotFocosx, TreeJsonName >>, json)

\* ------------------------------------------------------------ the system
\* One vault "V" registered at /v; the names, ids and texts the commands
\* are called with.  "U" is an id no descriptor has.
VaultId == << 86 >>
OtherId == << 85 >>
VaultDirName == << 118 >>
VaultPathStr == << Slash >> \o VaultDirName
VaultRoot == << RootDir, VaultDirName >>
VaultLoc == << VaultDirName >>

NameA == << 97 >>
NameB == << 66 >>
NameHidden == << Dot, 104 >>
NameCanvas == << 99 >> \o DotCanvas

Sub(a, b) == a \o << Slash >> \o b
IdOf(rel) == FormatId(VaultId, rel)

ScanNames == {NameA, NameB, NameHidden, NameCanvas}
NameInputs == ScanNames \cup {<< >>}
NodeRels == ScanNames \cup {Sub(NameA, NameB), Sub(NameA, NameHidden), Sub(NameHidden, NameA)}
NodeIds == {IdOf(r) : r \in NodeRels}
IdInputs == NodeIds \cup {IdOf(<< >>)}
ParentInputs == {None, Some(IdOf(NameA)), Some(IdOf(NameHidden))}
KindInputs == {"FOLDER", "FILE", "CANVAS"}
VaultInputs == {VaultId, OtherId}
ContentIds == {IdOf(NameA), IdOf(Sub(NameA, NameB)), IdOf(NameHidden), IdOf(<< >>)}
TextInputs == {Plain("t1")}
LegacyNode == FileSystemNode(<< 76 >>, << 110 >>, "FILE", None, None)
DocInputs == {ToJson(<< LegacyNode >>)}

\* The orders in which read_dir can hand out entries: every ranking of the
\* names an entry of the vault can have.
NameOrders ==
    {o \in [ScanNames -> 1..Cardinality(ScanNames)] :
        \A x, y \in ScanNames : x # y => o[x] # o[y]}

\* The orders the commands of the system run under: "a" before "B" and
\* "B" before "a".
OrderInputs == {o \in NameOrders : o[NameCanvas] = 3 /\ o[NameHidden] = 4}

\* The locations below <vault>/.focosx.
InMetadataDir(loc) == IsPrefix(VaultLoc \o << DotFocosx >>, loc)

\* The number of entries besides "/" and the metadata of the vault.
Size(f) == Cardinality({l \in DOMAIN f : ~InMetadataDir(l)}) - 1

\* All nodes of a list of nodes, at every depth.
RECURSIVE Flatten(_)
Flatten(nodes) ==
    IF Len(nodes) = 0 THEN {}
    ELSE {nodes[1]}
         \cup (IF IsSome(nodes[1].children) THEN Flatten(Unwrap(nodes[1].children)) ELSE {})
         \cup Flatten(Tail(nodes))

NodesOf(r) == IF r.ok /\ r.val.kind = "nodes" THEN Flatten(r.val.nodes) ELSE {}
IdsOf(r) == {n.id : n \in NodesOf(r)}

\* An id that lies below the id top.
UnderId(id, top) == IsPrefix(top \o << Slash >>, id) /\ id # top \o << Slash >>

FirstOrder == CHOOSE o \in NameOrders : TRUE

\* The ids of the tree load_tree returns for the vault "V" on filesystem f.
TreeIds(f) == IdsOf(load_tree(f, vaults, trees, VaultId, FirstOrder))

\* No id is on its way through the codec.
NoId == [pc |-> "none", vault_id |-> << >>, rel |-> << >>, id |-> << >>, out |-> None]

\* No scan is running.
Idle ==
    [pc |-> "idle", ord |-> FirstOrder, stack |-> << >>, result |-> Err,
     start |-> [l \in {<< >>} |-> DirEntry], renamed |-> FALSE]

Init ==
    /\ fs = [l \in {<< >>, VaultLoc} |-> DirEntry]
    /\ vaults = [kind |-> "array", arr |-> << [id |-> VaultId, path |-> Some(VaultPathStr)] >>]
    /\ trees = NoFiles
    /\ contents = NoFiles
    /\ deleted = None
    /\ scan = Idle
    /\ plugins = NoFiles
    /\ codec = NoId

CreateNode(vault_id, parent_id, name, node_type) ==
    LET r == create_node_cmd(fs, vaults, vault_id, parent_id, name, node_type)
    IN  /\ Size(r.fs) <= MaxEntries
        /\ fs' = r.fs
        /\ deleted' = None
        /\ UNCHANGED << vaults, trees, contents, scan, plugins, codec >>

Touched(d) == IF IsSome(d) THEN Some([Unwrap(d) EXCEPT !.touched = TRUE]) ELSE d

DeletedFolder(id, before) ==
    Some([id |-> id,
          removed |-> {x \in before : x = id \/ UnderId(x, id)},
          kept |-> {x \in before : x # id /\ ~UnderId(x, id)},
          touched |-> FALSE])

DeleteNode(vault_id, id) ==
    LET r == delete_node_cmd(fs, vaults, vault_id, id)
        folder == /\ PathIsDir(fs, PushId(VaultPath(vaults, vault_id).val, id))
                  /\ id \in TreeIds(fs)
    IN  /\ fs' = r.fs
        /\ deleted' = IF r.res.ok /\ folder THEN DeletedFolder(id, TreeIds(fs))
                      ELSE Touched(deleted)
        /\ UNCHANGED << vaults, trees, contents, scan, plugins, codec >>

RenameNode(vault_id, id, new_name) ==
    LET r == rename_node_cmd(fs, vaults, vault_id, id, new_name)
    IN  /\ fs' = r.fs
        /\ deleted' = None
        /\ scan' = IF scan.pc = "run" THEN [scan EXCEPT !.renamed = TRUE] ELSE scan
        /\ UNCHANGED << vaults, trees, contents, plugins, codec >>

LoadTree(vault_id, ord) ==
    LET r == load_tree(fs, vaults, trees, vault_id, ord)
    IN  /\ r.ok \in BOOLEAN
        /\ UNCHANGED vars

SaveTree(vault_id, json) ==
    LET r == save_tree(vaults, trees, vault_id, json)
    IN  /\ trees' = r.val
        /\ UNCHANGED << fs, vaults, contents, deleted, scan, plugins, codec >>

LoadFileContent(file_id) ==
    LET r == load_file_content(fs, vaults, trees, contents, file_id)
    IN  /\ Size(r.fs) <= MaxEntries
        /\ fs' = r.fs
        /\ UNCHANGED << vaults, trees, contents, deleted, scan, plugins, codec >>

SaveFileContent(file_id, json) ==
    LET r == save_file_content(fs, vaults, trees, contents, file_id, json)
    IN  /\ Size(r.fs) <= MaxEntries
        /\ fs' = r.fs
        /\ contents' = r.contents
        /\ deleted' = Touched(deleted)
        /\ UNCHANGED << vaults, trees, scan, plugins, codec >>

Next ==
    \/ \E p \in ParentInputs, n \in NameInputs, k \in KindInputs :
          CreateNode(VaultId, p, n, k)
    \/ \E i \in IdInputs : DeleteNode(VaultId, i)
    \/ \E i \in NodeIds, n \in NameInputs : RenameNode(VaultId, i, n)
    \/ \E v \in VaultInputs, o \in OrderInputs : LoadTree(v, o)
    \/ \E v \in VaultInputs, d \in DocInputs : SaveTree(v, d)
    \/ \E i \in ContentIds : LoadFileContent(i)
    \/ \E i \in ContentIds, t \in TextInputs : SaveFileContent(i, t)

Spec == Init /\ [][Next]_vars

\* --------------------------------------------- a scan next to a rename
\* The activation of scan_directory on directory current: the entries still
\* to visit, the nodes pushed so far, and whether path.is_dir() has just
\* answered true for the first entry, so that the recursive call is next.
Frame(current, parent_id, entries, nodes) ==
    [current |-> current, parent_id |-> parent_id, entries |-> entries,
     nodes |-> nodes, descend |-> FALSE]

Finished(sc, result) == [sc EXCEPT !.pc = "done", !.stack = << >>, !.result = result]

NodeIdAt(path) == FormatId(VaultId, RawId(StripPrefix(path, VaultRoot).val))

\* load_tree finds the directory of the vault and calls scan_directory on
\* it, which begins with fs::read_dir.
ScanBegin(ord) ==
    /\ scan.pc = "idle"
    /\ Scannable(fs, vaults, VaultId) # {}
    /\ LET entries == ReadDir(fs, VaultRoot, ord)
           begun == [Idle EXCEPT !.ord = ord, !.start = fs]
       IN  scan' = IF entries.ok
                   THEN [begun EXCEPT !.pc = "run",
                                      !.stack = << Frame(VaultRoot, None, entries.val, << >>) >>]
                   ELSE Finished(begun, Err)
    /\ UNCHANGED << fs, vaults, trees, contents, deleted, plugins, codec >>

\* The end of the loop: sort, return to the caller, which pushes the FOLDER
\* node with the returned children.
ScanReturn(stack, top) ==
    IF Len(stack) = 1 THEN Finished(scan, Ok(ToJson(SortNodes(top.nodes))))
    ELSE LET caller == stack[Len(stack) - 1]
             name == caller.entries[1]
             node == FileSystemNode(NodeIdAt(top.current), name, "FOLDER",
                                    Some(SortNodes(top.nodes)), caller.parent_id)
         IN  [scan EXCEPT !.stack = SubSeq(stack, 1, Len(stack) - 2) \o
                 << [caller EXCEPT !.entries = Tail(caller.entries),
                                   !.nodes = Append(caller.nodes, node),
                                   !.descend = FALSE] >>]

\* The recursive call: fs::read_dir of the subdirectory.
ScanDescend(stack, top, path) ==
    LET entries == ReadDir(fs, path, scan.ord)
    IN  IF entries.ok
        THEN [scan EXCEPT !.stack = Append(stack,
                 Frame(path, Some(NodeIdAt(path)), entries.val, << >>))]
        ELSE Finished(scan, Err)

\* One entry of the loop up to path.is_dir(): a hidden entry is skipped, a
\* directory is entered next, anything else is pushed as FILE or CANVAS.
ScanVisit(stack, top, name, path) ==
    LET rest == [top EXCEPT !.entries = Tail(top.entries)]
        node_type == IF EndsWith(name, DotCanvas) THEN "CANVAS" ELSE "FILE"
        node == FileSystemNode(NodeIdAt(path), name, node_type, None, top.parent_id)
        next == IF IsHidden(name) THEN rest
                ELSE IF PathIsDir(fs, path) THEN [top EXCEPT !.descend = TRUE]
                ELSE [rest EXCEPT !.nodes = Append(top.nodes, node)]
    IN  [scan EXCEPT !.stack = SubSeq(stack, 1, Len(stack) - 1) \o << next >>]

ScanStepOf(stack, top) ==
    IF Len(top.entries) = 0 THEN ScanReturn(stack, top)
    ELSE IF top.descend THEN ScanDescend(stack, top, top.current \o << top.entries[1] >>)
    ELSE ScanVisit(stack, top, top.entries[1], top.current \o << top.entries[1] >>)

ScanStep ==
    /\ scan.pc = "run"
    /\ scan' = ScanStepOf(scan.stack, scan.stack[Len(scan.stack)])
    /\ UNCHANGED << fs, vaults, trees, contents, deleted, plugins, codec >>


NextRace ==
    \/ /\ scan.pc = "idle"
       /\ \E p \in {None, Some(IdOf(NameA))}, n \in {NameA, NameB}, k \in {"FOLDER", "FILE"} :
             CreateNode(VaultId, p, n, k)
    \/ \E o \in OrderInputs : ScanBegin(o)
    \/ ScanStep
    \/ /\ scan.pc = "run"
       /\ ~scan.renamed
       /\ \E i \in {IdOf(NameA), IdOf(NameB), IdOf(Sub(NameA, NameB))}, n \in {NameA, NameB} :
             RenameNode(VaultId, i, n)

SpecRace == Init /\ [][NextRace]_vars

\* ------------------------------------------------- ids that leave the vault
\* The same vault next to a file /B that is not part of it, and callers that
\* pass names and ids with ".." segments or an absolute path.
OutsideLoc == << NameB >>
UpToB == ParentDirName \o << Slash >> \o NameB
AbsB == << Slash >> \o NameB

EscapeNames == {NameA, NameB, UpToB, AbsB}
EscapeIds == {IdOf(NameA), IdOf(NameB), IdOf(Sub(NameA, NameB)), IdOf(UpToB), IdOf(AbsB)}
EscapeParents == {None, Some(IdOf(NameA)), Some(IdOf(ParentDirName))}

InitEscape ==
    /\ fs = [l \in {<< >>, VaultLoc, OutsideLoc} |->
                IF l = OutsideLoc THEN FileEntry(EmptyText) ELSE DirEntry]
    /\ vaults = [kind |-> "array", arr |-> << [id |-> VaultId, path |-> Some(VaultPathStr)] >>]
    /\ trees = NoFiles
    /\ contents = NoFiles
    /\ deleted = None
    /\ scan = Idle
    /\ plugins = NoFiles
    /\ codec = NoId

NextEscape ==
    \/ \E p \in EscapeParents, n \in EscapeNames, k \in KindInputs :
          CreateNode(VaultId, p, n, k)
    \/ \E i \in EscapeIds : DeleteNode(VaultId, i)
    \/ \E i \in EscapeIds, n \in EscapeNames : RenameNode(VaultId, i, n)

SpecEscape == InitEscape /\ [][NextEscape]_vars

\* ------------------------------------------------- the registry of vaults
\* The vault directory /v under every kind of vaults.json: descriptor "V"
\* with the absolute path "/v", with the relative path "v" (the working
\* directory is "/"), without a path, no descriptor, a blank document and
\* text that does not parse.
MaxVaults == 2

RegistryInputs ==
    {Registry(<< Descriptor(VaultId, VaultPathStr) >>),
     Registry(<< Descriptor(VaultId, VaultDirName) >>),
     Registry(<< [id |-> VaultId, path |-> None] >>),
     Registry(<< >>),
     EmptyRegistry,
     Malformed}

LegacyId == LegacyNode.id
TreeDocs == DocInputs \cup {ToJson(<< >>)}

SaveVaults(json) ==
    /\ vaults' = save_vaults(json).val
    /\ UNCHANGED << fs, trees, contents, deleted, scan, plugins, codec >>

\* The uuid is new: no descriptor has it.
CreateVaultAtPath(id, path) ==
    LET r == create_vault_at_path(vaults, id, path)
    IN  /\ Len(vaults.arr) < MaxVaults
        /\ \A i \in 1..Len(vaults.arr) : vaults.arr[i].id # id
        /\ vaults' = r.vaults
        /\ UNCHANGED << fs, trees, contents, deleted, scan, plugins, codec >>

DeleteVault(vault_id) ==
    LET r == delete_vault(fs, trees, plugins, vault_id)
    IN  /\ fs' = r.fs
        /\ trees' = r.trees
        /\ plugins' = r.plugins
        /\ UNCHANGED << vaults, contents, deleted, scan, codec >>

SaveWorkspacePluginIds(vault_id, json) ==
    /\ plugins' = save_workspace_plugin_ids(plugins, vault_id, json).val
    /\ UNCHANGED << fs, vaults, trees, contents, deleted, scan, codec >>

NextVaults ==
    \/ \E r \in RegistryInputs : SaveVaults(r)
    \/ \E i \in VaultInputs : CreateVaultAtPath(i, VaultPathStr)
    \/ \E n \in {NameA, NameB}, k \in {"FOLDER", "FILE"} : CreateNode(VaultId, None, n, k)
    \/ \E i \in {IdOf(NameA), IdOf(NameB)} : DeleteNode(VaultId, i)
    \/ RenameNode(VaultId, IdOf(NameA), NameB)
    \/ \E o \in OrderInputs : LoadTree(VaultId, o)
    \/ \E d \in TreeDocs : SaveTree(VaultId, d)
    \/ \E i \in {IdOf(NameA), LegacyId} : LoadFileContent(i)
    \/ \E i \in {IdOf(NameA), LegacyId}, t \in TextInputs : SaveFileContent(i, t)
    \/ DeleteVault(VaultId)
    \/ \E t \in TextInputs : SaveWorkspacePluginIds(VaultId, t)

SpecVaults == Init /\ [][NextVaults]_vars

\* --------------------------------------------- names the codec must carry
\* The vault directory with entries named "a", "B", "a\B" and "a:B", under
\* a registry with one descriptor for "V" and under one with two ("/v",
\* then "/w", which does not exist).
NameBackslash == << 97, Backslash, 66 >>
NameColon == << 97, Colon, 66 >>
WideNames == {NameA, NameB, NameBackslash, NameColon}
WideOrder ==
    CHOOSE o \in [WideNames -> 1..Cardinality(WideNames)] :
        \A x, y \in WideNames : x # y => o[x] # o[y]

OtherPathStr == << Slash, 119 >>
TwiceRegistered ==
    Registry(<< Descriptor(VaultId, VaultPathStr), Descriptor(VaultId, OtherPathStr) >>)

NextNames ==
    \/ \E r \in {Registry(<< Descriptor(VaultId, VaultPathStr) >>), TwiceRegistered} :
          SaveVaults(r)
    \/ \E p \in {None, Some(IdOf(NameA))}, n \in WideNames, k \in {"FOLDER", "FILE"} :
          CreateNode(VaultId, p, n, k)

SpecNames == Init /\ [][NextNames]_vars

\* -------------------------------------------------------------- the codec
\* encode: the id built from a vault id and the path of an entry relative
\* to the vault root (strip_prefix, to_string_lossy, replace, format!).
encode(vault_id, relative_path) == FormatId(vault_id, RawId(relative_path))

\* decode: the split of an id at its first colon; None without a colon.
decode(id) == SplitOnce(id, Colon)

\* Vault ids "V", "U" and "V:U"; relative paths of one or two components
\* over the names "a", "B", "a\B", "a:B" and ":a".
CodecVaults == {VaultId, OtherId, VaultId \o << Colon >> \o OtherId}
CodecNames == WideNames \cup {<< Colon, 97 >>}
CodecPaths == {<< n >> : n \in CodecNames} \cup {<< n, m >> : n \in CodecNames, m \in CodecNames}

InitCodec ==
    /\ fs = [l \in {<< >>, VaultLoc} |-> DirEntry]
    /\ vaults = Registry(<< Descriptor(VaultId, VaultPathStr) >>)
    /\ trees = NoFiles
    /\ contents = NoFiles
    /\ deleted = None
    /\ scan = Idle
    /\ plugins = NoFiles
    /\ \E v \in CodecVaults, p \in CodecPaths :
          codec = [NoId EXCEPT !.pc = "input", !.vault_id = v, !.rel = p]

Encode ==
    /\ codec.pc = "input"
    /\ codec' = [codec EXCEPT !.pc = "encoded", !.id = encode(codec.vault_id, codec.rel)]
    /\ UNCHANGED << fs, vaults, trees, contents, deleted, scan, plugins >>

Decode ==
    /\ codec.pc = "encoded"
    /\ codec' = [codec EXCEPT !.pc = "decoded", !.out = decode(codec.id)]
    /\ UNCHANGED << fs, vaults, trees, contents, deleted, scan, plugins >>

NextCodec == Encode \/ Decode

SpecCodec == InitCodec /\ [][NextCodec]_vars

\* ------------------------------------------------------------- legacy ids
\* The vault with a tree document <vault>/.focosx/tree.json that lists the
\* opaque id "L" at the top level and the opaque id "N" inside a folder,
\* that lists "N" alone, or that lists nothing.
NestedId == << 78 >>
FolderId == << 70 >>
NestedNode == FileSystemNode(NestedId, << 109 >>, "FILE", None, Some(FolderId))
FolderNode == FileSystemNode(FolderId, << 102 >>, "FOLDER", Some(<< NestedNode >>), None)
LegacyDoc == ToJson(<< LegacyNode, FolderNode >>)
LegacyIds == {LegacyId, NestedId}
LegacyTexts == TextInputs \cup {Plain("t2")}

SaveTreeToVaultPath(vault_folder, json) ==
    /\ fs' = save_tree_to_vault_path(fs, vault_folder, json).val
    /\ UNCHANGED << vaults, trees, contents, deleted, scan, plugins, codec >>

NextLegacy ==
    \/ \E d \in {LegacyDoc, ToJson(<< NestedNode >>), ToJson(<< >>)} : SaveTreeToVaultPath(VaultPathStr, d)
    \/ \E i \in LegacyIds : LoadFileContent(i)
    \/ \E i \in LegacyIds, t \in LegacyTexts : SaveFileContent(i, t)

SpecLegacy == Init /\ [][NextLegacy]_vars

\* ------------------------------------------- vaults created and deleted
\* A fresh installation (no vaults.json) on which vaults are created and
\* deleted; uuids are drawn from "V", "U" and "W".
UuidInputs == VaultInputs \cup {<< 87 >>}
PathInputs == {VaultPathStr, OtherPathStr}

InitRegistry ==
    /\ fs = [l \in {<< >>, VaultLoc} |-> DirEntry]
    /\ vaults = EmptyRegistry
    /\ trees = NoFiles
    /\ contents = NoFiles
    /\ deleted = None
    /\ scan = Idle
    /\ plugins = NoFiles
    /\ codec = NoId

NextRegistry ==
    \/ \E i \in UuidInputs, p \in PathInputs : CreateVaultAtPath(i, p)
    \/ \E i \in UuidInputs : DeleteVault(i)
    \/ \E i \in VaultInputs, t \in TextInputs : SaveWorkspacePluginIds(i, t)

SpecRegistry == InitRegistry /\ [][NextRegistry]_vars

\* ---------------------------------------------- directories nobody lists
\* The vault with directories that lose their read permission while
\* entries are created: read_dir fails on them with EACCES.
DeniedLocs ==
    {VaultLoc, VaultLoc \o << NameA >>, VaultLoc \o << NameA, NameB >>,
     VaultLoc \o << NameHidden >>, VaultLoc \o << NameHidden, NameA >>}

Chmod(loc) ==
    /\ IsDirAt(fs, loc)
    /\ fs' = Put(fs, loc, DeniedDir)
    /\ UNCHANGED << vaults, trees, contents, deleted, scan, plugins, codec >>

NextDenied ==
    \/ \E p \in ParentInputs, n \in NameInputs, k \in KindInputs :
          CreateNode(VaultId, p, n, k)
    \/ \E l \in DeniedLocs : Chmod(l)
    \/ \E v \in VaultInputs, o \in OrderInputs : LoadTree(v, o)

SpecDenied == Init /\ [][NextDenied]_vars

\* ------------------------------------------------------------- properties
\* The part of an id behind its first colon.
RelOf(id) == IdPath(id)

\* Whether a relative path has a component that starts with '.'.
HiddenRel(rel) == \E k \in 1..Len(SplitAll(rel, Slash)) : StartsWith(SplitAll(rel, Slash)[k], Dot)

IsFolder(n) == n.node_type = "FOLDER"

\* One level: folders first, names non-decreasing inside each group.
OrderedLevel(nodes) ==
    \A i, j \in 1..Len(nodes) :
        i < j => /\ ~(~IsFolder(nodes[i]) /\ IsFolder(nodes[j]))
                 /\ (IsFolder(nodes[i]) = IsFolder(nodes[j])
                        => StrCmp(nodes[i].name, nodes[j].name) <= 0)

RECURSIVE OrderedTree(_)
OrderedTree(nodes) ==
    /\ OrderedLevel(nodes)
    /\ \A i \in 1..Len(nodes) :
          IsSome(nodes[i].children) => OrderedTree(Unwrap(nodes[i].children))

\* The vault "V" is path-backed and its directory exists.
VaultExists == PathIsDir(fs, VaultRoot)

\* C1: while the backing directory of the path-backed vault exists, the tree
\* load_tree returns has, at the root and in every children list, every
\* FOLDER before every FILE/CANVAS and non-decreasing names inside each of
\* the two groups, and it is the same tree for every order in which the OS
\* enumerates the directory entries.
C1_Ordering ==
    VaultExists =>
        \A o \in NameOrders :
            LET r == load_tree(fs, vaults, trees, VaultId, o)
            IN  /\ r.ok
                /\ r.val.kind = "nodes"
                /\ OrderedTree(r.val.nodes)
                /\ r = load_tree(fs, vaults, trees, VaultId, FirstOrder)

\* A folder "a" next to a file "B" (which sorts before "a" by name) and a
\* third node, loaded under an order that enumerates "B" first.
C1_Witness ==
    /\ IsDirAt(fs, VaultLoc \o << NameA >>)
    /\ IsFileAt(fs, VaultLoc \o << NameB >>)
    /\ \E o \in NameOrders :
          /\ o[NameB] < o[NameA]
          /\ LET r == load_tree(fs, vaults, trees, VaultId, o)
             IN  r.ok /\ Cardinality(NodesOf(r)) = 3 /\ r.val.nodes[1].name = NameA

\* A hidden directory with an entry inside it, next to a folder that is in
\* the loaded tree.
C2_Witness ==
    /\ IsDirAt(fs, VaultLoc \o << NameHidden >>)
    /\ Exists(fs, VaultLoc \o << NameHidden, NameA >>)
    /\ \E n \in NodesOf(load_tree(fs, vaults, trees, VaultId, FirstOrder)) : n.name = NameA

\* C2: no node of the tree load_tree returns for the path-backed vault has
\* a name that starts with '.', and none lies below an entry whose name
\* starts with '.', at any depth.
C2_NoHidden ==
    \A o \in NameOrders :
        \A n \in NodesOf(load_tree(fs, vaults, trees, VaultId, o)) :
            ~StartsWith(n.name, Dot) /\ ~HiddenRel(RelOf(n.id))

\* The id claimed for create: "V:" and the relative path of the parent
\* joined with the name.
ExpectedCreate(parent_id, name) ==
    IF IsSome(parent_id) THEN IdOf(Sub(RelOf(Unwrap(parent_id)), name)) ELSE IdOf(name)

\* C3: with the vault directory present, for every parent id, name and
\* kind, a create_node_cmd that succeeds returns "V:" followed by the
\* relative path of the created entry, and the tree load_tree returns next
\* has exactly one node with the returned id.
C3_CreateReturnsLoadedId ==
    VaultExists =>
        \A p \in ParentInputs, n \in NameInputs, k \in KindInputs :
            LET r == create_node_cmd(fs, vaults, VaultId, p, n, k)
            IN  r.res.ok =>
                  /\ r.res.val = ExpectedCreate(p, n)
                  /\ \A o \in NameOrders :
                        Cardinality({x \in NodesOf(load_tree(r.fs, vaults, trees, VaultId, o)) :
                                        x.id = r.res.val}) = 1

\* The last path component of a relative path, and the path before it.
LastName(rel) == SplitAll(rel, Slash)[Len(SplitAll(rel, Slash))]
ExpectedRename(id, new_name) ==
    IF Len(SplitAll(RelOf(id), Slash)) > 1
    THEN IdOf(SubSeq(RelOf(id), 1, Len(RelOf(id)) - Len(LastName(RelOf(id)))) \o new_name)
    ELSE IdOf(new_name)

\* A node without its children list.
Flat(n) == [id |-> n.id, name |-> n.name, node_type |-> n.node_type, parent_id |-> n.parent_id]

Outside(nodes, old, new) ==
    {Flat(n) : n \in {x \in nodes : /\ x.id # old /\ ~UnderId(x.id, old)
                                    /\ x.id # new /\ ~UnderId(x.id, new)}}

\* C4: for a node V:p of the loaded tree, a rename_node_cmd that succeeds
\* returns V:parent(p)/newName; the tree loaded next has a node with the
\* returned id, has no node at or under V:p when the name changed, and has
\* every node outside the renamed subtree unchanged.
C4_RenameReturnsLoadedId ==
    VaultExists =>
        \A i \in NodeIds, n \in NameInputs :
            LET r == rename_node_cmd(fs, vaults, VaultId, i, n)
                before == NodesOf(load_tree(fs, vaults, trees, VaultId, FirstOrder))
                after == NodesOf(load_tree(r.fs, vaults, trees, VaultId, FirstOrder))
            IN  (i \in {x.id : x \in before} /\ r.res.ok) =>
                  /\ r.res.val = ExpectedRename(i, n)
                  /\ r.res.val \in {x.id : x \in after}
                  /\ n # LastName(RelOf(i)) =>
                        \A x \in after : x.id # i /\ ~UnderId(x.id, i)
                  /\ Outside(before, i, r.res.val) = Outside(after, i, r.res.val)

\* Whether tree ids show a delete as complete: nothing at or under the
\* deleted id, every other node still there.
DeleteHolds(d, ids) ==
    /\ \A x \in ids : x # d.id /\ ~UnderId(x, d.id)
    /\ d.kept \subseteq ids

\* C5 as stated: after a successful delete_node_cmd of a folder node, and
\* until the next create or rename, every load_tree has no node at or under
\* the deleted id and still has every node outside the deleted subtree.
C5_DeleteComplete ==
    IsSome(deleted) =>
        \A o \in NameOrders :
            DeleteHolds(Unwrap(deleted), IdsOf(load_tree(fs, vaults, trees, VaultId, o)))

\* C5, amended: after a successful delete_node_cmd of a folder node, and
\* until the next create, rename, delete or content save, every load_tree
\* has no node at or under the deleted id and still has every node outside
\* the deleted subtree.
C5_DeleteCompleteUntilWrite ==
    (IsSome(deleted) /\ ~Unwrap(deleted).touched) =>
        \A o \in NameOrders :
            DeleteHolds(Unwrap(deleted), IdsOf(load_tree(fs, vaults, trees, VaultId, o)))

\* A folder with a node inside it was deleted and another node was kept.
C5_Witness ==
    /\ IsSome(deleted)
    /\ ~Unwrap(deleted).touched
    /\ Cardinality(Unwrap(deleted).removed) >= 2
    /\ Unwrap(deleted).kept # {}
    /\ VaultExists

\* The scan of the vault directory, as a load_tree result.
ScanOf(f, ord) ==
    LET nodes == ScanDirectory(f, VaultRoot, VaultRoot, None, VaultId \o << Colon >>, ord)
    IN  IF nodes.ok THEN Ok(ToJson(nodes.val)) ELSE Err

\* C6: while the directory of the path-backed vault exists, save_tree with
\* any document succeeds and writes no persisted tree document, and
\* load_tree returns the same tree before and after the call: the scan of
\* the directory, not the document.
C6_SaveTreeNoOp ==
    VaultExists =>
        \A d \in DocInputs :
            LET r == save_tree(vaults, trees, VaultId, d)
            IN  /\ r.ok
                /\ r.val = trees
                /\ \A o \in NameOrders :
                      LET after == load_tree(fs, vaults, r.val, VaultId, o)
                      IN  /\ after = load_tree(fs, vaults, trees, VaultId, o)
                          /\ after = ScanOf(fs, o)
                          /\ after # Ok(d)

\* The vault directory holds nodes, trees/V.json does not exist, and
\* save_tree is applicable and succeeds.
C6_Witness ==
    /\ VaultExists
    /\ TreeIds(fs) # {}
    /\ VaultId \notin DOMAIN trees
    /\ \E d \in DocInputs : save_tree(vaults, trees, VaultId, d).ok

\* C7: while the backing directory of the path-backed vault does not exist,
\* save_tree overwrites the persisted tree document, so that the load_tree
\* that follows returns exactly the saved document.
C7_SaveTreeWhenMissing ==
    ~PathExists(fs, VaultRoot) =>
        \A d \in DocInputs :
            LET r == save_tree(vaults, trees, VaultId, d)
            IN  /\ r.ok
                /\ \A o \in NameOrders : load_tree(fs, vaults, r.val, VaultId, o) = Ok(d)

\* C8: a save_file_content of an id "V:rel" that succeeds writes the text to
\* the file <backing path>/rel itself, adds nothing below <vault>/.focosx
\* and leaves the contents documents of the application store alone, and
\* the load_file_content that follows returns exactly the text.
C8_SaveWritesRealFile ==
    \A i \in ContentIds, t \in TextInputs :
        LET r == save_file_content(fs, vaults, trees, contents, i, t)
        IN  r.res.ok =>
              /\ FsReadToString(r.fs, Push(VaultRoot, RelOf(i))) = Ok(t)
              /\ r.contents = contents
              /\ \A l \in DOMAIN r.fs \ DOMAIN fs : ~InMetadataDir(l)
              /\ load_file_content(r.fs, vaults, trees, r.contents, i).res = Ok(t)

\* A file below a folder of the vault holds the saved text, and the
\* application store holds no contents document.
C8_Witness ==
    /\ IsFileAt(fs, VaultLoc \o << NameA, NameB >>)
    /\ fs[VaultLoc \o << NameA, NameB >>].text \in TextInputs
    /\ contents = NoFiles

\* Whether filesystems f and g agree on every location outside the vault
\* directory.
SameOutside(f, g) ==
    \A l \in DOMAIN f \cup DOMAIN g :
        ~Under(l, VaultLoc) => l \in DOMAIN f /\ l \in DOMAIN g /\ f[l] = g[l]

\* C10: for every parent id, name and node id, with ".." segments or an
\* absolute path behind the colon among them, create_node_cmd,
\* delete_node_cmd and rename_node_cmd leave every filesystem entry outside
\* the backing directory of the vault as it was.
C10_StaysInsideVault ==
    /\ \A p \in EscapeParents, n \in EscapeNames, k \in KindInputs :
          SameOutside(fs, create_node_cmd(fs, vaults, VaultId, p, n, k).fs)
    /\ \A i \in EscapeIds :
          SameOutside(fs, delete_node_cmd(fs, vaults, VaultId, i).fs)
    /\ \A i \in EscapeIds, n \in EscapeNames :
          SameOutside(fs, rename_node_cmd(fs, vaults, VaultId, i, n).fs)

\* Equality of two load_tree results.
SameResult(x, y) == x.ok = y.ok /\ (x.ok => x.val = y.val)

\* C9: a scan that ran while rename_node_cmd was called in the same vault
\* ends with the tree of the directory as it was before the rename or as
\* it is after it, and does not fail.
C9_ScanSeesBeforeOrAfter ==
    (scan.pc = "done" /\ scan.renamed) =>
        /\ scan.result.ok
        /\ \/ SameResult(scan.result, ScanOf(scan.start, scan.ord))
           \/ SameResult(scan.result, ScanOf(fs, scan.ord))

\* A scan that ran alone ends with the result of load_tree.
ScanAloneIsLoad ==
    (scan.pc = "done" /\ ~scan.renamed) =>
        SameResult(scan.result, load_tree(fs, vaults, trees, VaultId, scan.ord))

\* The entry a rename of id to new_name would land on: the resolved
\* locations of parent(oldPath)/newName and of oldPath.
Destination(id, new_name) ==
    Resolve(fs, Push(Unwrap(Parent(PushId(VaultRoot, id))), new_name))
Source(id) == Resolve(fs, PushId(VaultRoot, id))

Occupied(id, new_name) ==
    /\ IsSome(Parent(PushId(VaultRoot, id)))
    /\ ExistsAt(fs, Source(id))
    /\ ExistsAt(fs, Destination(id, new_name))
    /\ Source(id).val # Destination(id, new_name).val

\* C11: a rename_node_cmd whose destination parent(oldPath)/newName is
\* occupied by another entry returns an error and leaves the filesystem as
\* it was: source and destination keep their names and contents.
C11_RenameOntoOccupiedFails ==
    \A i \in NodeIds, n \in NameInputs :
        Occupied(i, n) =>
            LET r == rename_node_cmd(fs, vaults, VaultId, i, n)
            IN  ~r.res.ok /\ r.fs = fs

\* The entries of filesystem f below the vault directory whose name starts
\* with '.', or that lie below such an entry, with what they hold.
HiddenLoc(l) ==
    /\ Under(l, VaultLoc)
    /\ \E k \in (Len(VaultLoc) + 1)..Len(l) : StartsWith(l[k], Dot)
HiddenPart(f) == [l \in {x \in DOMAIN f : HiddenLoc(x)} |-> f[l]]

\* C17: no create_node_cmd, delete_node_cmd, rename_node_cmd or
\* save_file_content call creates, changes or removes an entry of the vault
\* directory whose name starts with '.', and no load_file_content call
\* returns what such an entry holds.
C17_HiddenUntouched ==
    /\ \A p \in ParentInputs, n \in NameInputs, k \in KindInputs :
          HiddenPart(create_node_cmd(fs, vaults, VaultId, p, n, k).fs) = HiddenPart(fs)
    /\ \A i \in IdInputs :
          HiddenPart(delete_node_cmd(fs, vaults, VaultId, i).fs) = HiddenPart(fs)
    /\ \A i \in NodeIds, n \in NameInputs :
          HiddenPart(rename_node_cmd(fs, vaults, VaultId, i, n).fs) = HiddenPart(fs)
    /\ \A i \in ContentIds, t \in TextInputs :
          HiddenPart(save_file_content(fs, vaults, trees, contents, i, t).fs) = HiddenPart(fs)
    /\ \A i \in ContentIds :
          LET at == Resolve(fs, PushId(VaultRoot, i))
          IN  (at.ok /\ HiddenLoc(at.val) /\ IsFileAt(fs, at.val) /\ fs[at.val].text # EmptyText)
                 => load_file_content(fs, vaults, trees, contents, i).res # Ok(fs[at.val].text)

\* The kinds of vault: path-backed when a descriptor with the id has an
\* absolute path, app-managed when vaults.json is readable and has none.
PathBacked(vs, vault_id) ==
    /\ vs.kind = "array"
    /\ \E i \in Matching(vs, vault_id) : IsAbsolute(Components(Unwrap(vs.arr[i].path)))
AppManaged(vs, vault_id) == vs.kind # "malformed" /\ ~PathBacked(vs, vault_id)
RelativeVault(vs, vault_id) == AppManaged(vs, vault_id) /\ Matching(vs, vault_id) # {}

\* C12: for a vault id that is unknown, whose descriptor has no path or
\* whose descriptor has a relative path, create_node_cmd, delete_node_cmd
\* and rename_node_cmd return an error and leave the filesystem unchanged.
C12_MutatorsNeedAbsolutePath ==
    AppManaged(vaults, VaultId) =>
        /\ \A p \in ParentInputs, n \in NameInputs, k \in KindInputs :
              LET r == create_node_cmd(fs, vaults, VaultId, p, n, k)
              IN  ~r.res.ok /\ r.fs = fs
        /\ \A i \in IdInputs :
              LET r == delete_node_cmd(fs, vaults, VaultId, i)
              IN  ~r.res.ok /\ r.fs = fs
        /\ \A i \in NodeIds, n \in NameInputs :
              LET r == rename_node_cmd(fs, vaults, VaultId, i, n)
              IN  ~r.res.ok /\ r.fs = fs

\* C13: for an app-managed vault (unknown id, descriptor without a path,
\* descriptor with a relative path) load_tree succeeds and returns the
\* document trees/<id>.json verbatim, the empty text when there is none,
\* whatever the directory holds; after a save_tree of any document it
\* returns exactly that document.
C13_AppManagedLoad ==
    \A v \in VaultInputs :
        AppManaged(vaults, v) =>
            \A o \in NameOrders :
                /\ v \in DOMAIN trees => load_tree(fs, vaults, trees, v, o) = Ok(trees[v])
                /\ v \notin DOMAIN trees => load_tree(fs, vaults, trees, v, o) = Ok(EmptyText)
                /\ \A d \in TreeDocs :
                      LET saved == save_tree(vaults, trees, v, d)
                      IN  /\ saved.ok
                          /\ load_tree(fs, vaults, saved.val, v, o) = Ok(d)

\* The vault has a relative path, its directory holds an entry, and a
\* document that is not the scan of the directory was saved for it.
C13_Witness ==
    /\ RelativeVault(vaults, VaultId)
    /\ ChildrenOf(fs, VaultLoc) # {}
    /\ VaultId \in DOMAIN trees
    /\ trees[VaultId] \in TreeDocs
    /\ Ok(trees[VaultId]) # ScanOf(fs, FirstOrder)

\* C16: delete_vault succeeds, whether or not the documents exist; after it
\* neither trees/<id>.json nor workspace_plugins/<id>.json exists, every
\* other document is kept, and the filesystem, the directory of a
\* path-backed vault included, is as it was.
C16_DeleteVaultKeepsDirectory ==
    \A v \in VaultInputs :
        LET r == delete_vault(fs, trees, plugins, v)
        IN  /\ r.res.ok
            /\ v \notin DOMAIN r.trees
            /\ v \notin DOMAIN r.plugins
            /\ get_workspace_plugin_ids(r.plugins, v) = Ok(EmptyText)
            /\ \A k \in DOMAIN trees \ {v} : k \in DOMAIN r.trees /\ r.trees[k] = trees[k]
            /\ \A k \in DOMAIN plugins \ {v} : k \in DOMAIN r.plugins /\ r.plugins[k] = plugins[k]
            /\ r.fs = fs
            /\ \A o \in OrderInputs :
                  PathBacked(vaults, v) =>
                      load_tree(r.fs, vaults, r.trees, v, o) = load_tree(fs, vaults, trees, v, o)

\* A path-backed vault whose directory holds a file with text, with a
\* persisted tree document and a workspace plugin list.
C16_Witness ==
    /\ PathBacked(vaults, VaultId)
    /\ VaultId \in DOMAIN trees
    /\ VaultId \in DOMAIN plugins
    /\ \E l \in ChildrenOf(fs, VaultLoc) : IsFileAt(fs, l) /\ fs[l].text # EmptyText

\* C18: while vaults.json does not parse, load_tree, save_tree,
\* load_file_content, save_file_content, create_node_cmd, delete_node_cmd,
\* rename_node_cmd and create_vault_at_path each return an error and write
\* nothing.
C18_MalformedRegistrySurfaces ==
    vaults.kind = "malformed" =>
        /\ \A o \in OrderInputs : ~load_tree(fs, vaults, trees, VaultId, o).ok
        /\ \A d \in TreeDocs :
              LET r == save_tree(vaults, trees, VaultId, d)
              IN  ~r.ok /\ r.val = trees
        /\ \A i \in ContentIds \cup {LegacyId} :
              LET r == load_file_content(fs, vaults, trees, contents, i)
              IN  ~r.res.ok /\ r.fs = fs
        /\ \A i \in ContentIds \cup {LegacyId}, t \in TextInputs :
              LET r == save_file_content(fs, vaults, trees, contents, i, t)
              IN  ~r.res.ok /\ r.fs = fs /\ r.contents = contents
        /\ \A p \in ParentInputs, n \in NameInputs, k \in KindInputs :
              LET r == create_node_cmd(fs, vaults, VaultId, p, n, k)
              IN  ~r.res.ok /\ r.fs = fs
        /\ \A i \in IdInputs :
              LET r == delete_node_cmd(fs, vaults, VaultId, i)
              IN  ~r.res.ok /\ r.fs = fs
        /\ \A i \in NodeIds, n \in NameInputs :
              LET r == rename_node_cmd(fs, vaults, VaultId, i, n)
              IN  ~r.res.ok /\ r.fs = fs
        /\ \A i \in VaultInputs :
              LET r == create_vault_at_path(vaults, i, VaultPathStr)
              IN  ~r.res.ok /\ r.vaults = vaults

\* C19: for an id "V:rel" whose vault V has a relative path,
\* save_file_content stores the text as the document contents/<id>.json
\* of the application store and writes no file, and load_file_content
\* returns that document.
C19_RelativeVaultUsesStore ==
    RelativeVault(vaults, VaultId) =>
        \A i \in {IdOf(NameA), IdOf(NameB)} :
            /\ load_file_content(fs, vaults, trees, contents, i).res = Ok(ReadStore(contents, i))
            /\ \A t \in TextInputs :
                  LET r == save_file_content(fs, vaults, trees, contents, i, t)
                  IN  /\ r.res.ok
                      /\ r.fs = fs
                      /\ r.contents = Store(contents, i, t)
                      /\ load_file_content(r.fs, vaults, trees, r.contents, i).res = Ok(t)

\* The nodes of a scanned tree, each with the location of the directory
\* entry the scanner made it from: the names from the scanned directory
\* cur down to the entry.
RECURSIVE Origins(_, _)
Origins(nodes, cur) ==
    IF Len(nodes) = 0 THEN {}
    ELSE {[id |-> nodes[1].id, loc |-> cur \o << nodes[1].name >>]}
         \cup (IF IsSome(nodes[1].children)
               THEN Origins(Unwrap(nodes[1].children), cur \o << nodes[1].name >>)
               ELSE {})
         \cup Origins(Tail(nodes), cur)

\* The location of the directory load_tree scans for the vault.
ScannedLoc(f, vs, vault_id) ==
    Resolve(f, Components(Unwrap(vs.arr[Min(Scannable(f, vs, vault_id))].path))).val

\* Whether the content store and the mutators decode id to location loc.
DecodesTo(id, loc) ==
    /\ IsSome(DirectPath(vaults, id))
    /\ Resolve(fs, Unwrap(DirectPath(vaults, id))) = Ok(loc)
    /\ VaultPath(vaults, VaultId).ok
    /\ Resolve(fs, PushId(VaultPath(vaults, VaultId).val, id)) = Ok(loc)

\* C14: for every node of the tree load_tree returns for the path-backed
\* vault, load_file_content / save_file_content and delete_node_cmd /
\* rename_node_cmd decode the id of the node to the directory entry the
\* scanner made the node from.
C14_IdsDecodeToOrigin ==
    (vaults.kind = "array" /\ Scannable(fs, vaults, VaultId) # {}) =>
        LET r == load_tree(fs, vaults, trees, VaultId, WideOrder)
        IN  r.ok =>
              \A o \in Origins(r.val.nodes, ScannedLoc(fs, vaults, VaultId)) :
                  DecodesTo(o.id, o.loc)

\* The relative path as the string the caller knows it by.
PathStr(relative_path) == JoinWith(relative_path, Slash)

\* C15: for every vault id and every relative path that does not start
\* with a colon, decoding the encoded id gives back the vault id and the
\* relative path.
C15_RoundTrip ==
    (codec.pc = "decoded" /\ ~StartsWith(PathStr(codec.rel), Colon)) =>
        codec.out = Some(<< codec.vault_id, PathStr(codec.rel) >>)

\* Whether file_id is the id of a node, at any depth, of the persisted tree
\* of a vault whose path is absolute.
InPersistedTree(file_id) ==
    /\ vaults.kind = "array"
    /\ \E k \in 1..Len(vaults.arr) :
          /\ IsSome(vaults.arr[k].path)
          /\ IsAbsolute(Components(Unwrap(vaults.arr[k].path)))
          /\ file_id \in IdsOf(Ok(TreeJsonOf(fs, trees, vaults.arr[k])))

SideDocument(file_id) == ContentsDir(VaultRoot) \o << file_id \o DotJson >>

\* C20: for an id without a colon that is the id of a node, at any depth, of
\* the persisted tree of the vault at /v, save_file_content writes the text
\* to /v/.focosx/contents/<id>.json and leaves the contents documents of
\* the application store alone, and the load_file_content that follows
\* returns the text.
C20_LegacyIdUsesVaultSideDocument ==
    \A i \in LegacyIds :
        InPersistedTree(i) =>
            \A t \in LegacyTexts :
                LET r == save_file_content(fs, vaults, trees, contents, i, t)
                IN  /\ r.res.ok
                    /\ r.contents = contents
                    /\ FsReadToString(r.fs, SideDocument(i)) = Ok(t)
                    /\ load_file_content(r.fs, vaults, trees, r.contents, i).res = Ok(t)

DistinctIds(vs) == \A i, j \in 1..Len(vs.arr) : i # j => vs.arr[i].id # vs.arr[j].id

\* Whether registry ws is registry vs with one descriptor appended by a
\* create_vault_at_path that returned the id of that descriptor.
AppendedTo(vs, ws) ==
    /\ Len(ws.arr) = Len(vs.arr) + 1
    /\ SubSeq(ws.arr, 1, Len(vs.arr)) = vs.arr
    /\ \A k \in 1..Len(vs.arr) : vs.arr[k].id # ws.arr[Len(ws.arr)].id
    /\ \E i \in UuidInputs, p \in PathInputs :
          /\ create_vault_at_path(vs, i, p) = [res |-> Ok(i), vaults |-> ws]
          /\ ws.arr[Len(ws.arr)] = Descriptor(i, p)

\* C21: every step of a run of create_vault_at_path and delete_vault calls
\* leaves the ids of the registry pairwise distinct; a step that changes
\* the registry appends one descriptor with an id no earlier descriptor
\* has, keeps every earlier descriptor in its position, returns the id of
\* the appended descriptor and changes nothing on the filesystem.
C21_RegistryAppendOnly ==
    [][/\ DistinctIds(vaults')
       /\ vaults' # vaults => (AppendedTo(vaults, vaults') /\ fs' = fs)]_vars

\* Two vaults were created, one after the other.
C21_Witness ==
    /\ vaults.kind = "array"
    /\ Len(vaults.arr) = 2
    /\ vaults.arr[1].id # vaults.arr[2].id
    /\ ~PathExists(fs, Components(OtherPathStr))
    /\ \E k \in 1..2 : vaults.arr[k].path = Some(OtherPathStr)

\* The first and the second of two FOLDER creates with the same arguments.
FolderOnce(f, p, n) == create_node_cmd(f, vaults, VaultId, p, n, "FOLDER")
FolderTwice(f, p, n) == FolderOnce(FolderOnce(f, p, n).fs, p, n)
FolderTarget(p, n) == TargetPath(VaultPath(vaults, VaultId).val, p, n)

\* C22: for every parent id and name, when create_node_cmd with kind
\* FOLDER succeeds, the same call made again succeeds too and returns the
\* same id, the target is one directory, and the second call leaves the
\* filesystem, the contents of the folder included, as the first left it;
\* on a folder that is already there the first call changes nothing either.
C22_FolderCreateIdempotent ==
    \A p \in ParentInputs, n \in NameInputs :
        /\ FolderOnce(fs, p, n).res.ok =>
              /\ FolderTwice(fs, p, n).res = FolderOnce(fs, p, n).res
              /\ FolderTwice(fs, p, n).fs = FolderOnce(fs, p, n).fs
              /\ PathIsDir(FolderOnce(fs, p, n).fs, FolderTarget(p, n))
        /\ (VaultExists /\ PathIsDir(fs, FolderTarget(p, n))) =>
              (FolderOnce(fs, p, n).res.ok /\ FolderOnce(fs, p, n).fs = fs)

\* The folder /v/a holds an entry, and creating it again succeeds; the
\* folder /v/a/B is missing, and creating it twice succeeds.
C22_Witness ==
    /\ IsDirAt(fs, VaultLoc \o << NameA >>)
    /\ ChildrenOf(fs, VaultLoc \o << NameA >>) # {}
    /\ FolderTwice(fs, None, NameA).res.ok
    /\ ~Exists(fs, VaultLoc \o << NameA, NameB >>)
    /\ FolderTwice(fs, Some(IdOf(NameA)), NameB).res.ok
    /\ FolderOnce(fs, Some(IdOf(NameA)), NameB).fs # fs

\* The three places load_file_content resolves an id to: a file of a
\* path-backed vault, a side-document inside a vault, a document of the
\* application store.
ReadsDirect(vs, file_id) == ~Unparsed(vs, file_id) /\ IsSome(DirectPath(vs, file_id))
ReadsLegacy(f, vs, tr, file_id) ==
    /\ ~Unparsed(vs, file_id)
    /\ ~IsSome(DirectPath(vs, file_id))
    /\ find_vault_folder_for_file(f, vs, tr, file_id).ok
    /\ IsSome(find_vault_folder_for_file(f, vs, tr, file_id).val)
ReadsStore(f, vs, tr, file_id) ==
    /\ ~Unparsed(vs, file_id)
    /\ ~IsSome(DirectPath(vs, file_id))
    /\ ~ReadsLegacy(f, vs, tr, file_id)
SideDocumentOf(f, vs, tr, file_id) ==
    Push(ContentsDir(Unwrap(find_vault_folder_for_file(f, vs, tr, file_id).val)),
         file_id \o DotJson)
LoadsEmpty(f, vs, tr, ct, file_id) ==
    load_file_content(f, vs, tr, ct, file_id).res = Ok(EmptyText)

\* C23: for every node id, when nothing exists at the place the id
\* resolves to (the file of the vault, the side-document inside the vault,
\* the document of the application store), load_file_content returns the
\* empty content and no error.
C23_MissingFileLoadsEmpty ==
    \A i \in ContentIds \cup LegacyIds :
        /\ (ReadsDirect(vaults, i) /\ ~PathExists(fs, Unwrap(DirectPath(vaults, i))))
              => LoadsEmpty(fs, vaults, trees, contents, i)
        /\ (ReadsLegacy(fs, vaults, trees, i)
              /\ ~PathExists(fs, SideDocumentOf(fs, vaults, trees, i)))
              => LoadsEmpty(fs, vaults, trees, contents, i)
        /\ (ReadsStore(fs, vaults, trees, i) /\ i \notin DOMAIN contents)
              => LoadsEmpty(fs, vaults, trees, contents, i)

\* The kind of the entry at location loc with the name name.
KindOfEntry(f, loc, name) ==
    IF IsDirAt(f, loc) THEN "FOLDER"
    ELSE IF EndsWith(name, DotCanvas) THEN "CANVAS" ELSE "FILE"

\* Node n describes the entry at location loc, whose path relative to the
\* vault root has the components rel, inside the folder with id parent_id.
DescribesEntry(f, n, loc, rel, parent_id) ==
    /\ Exists(f, loc)
    /\ n.id = FormatId(VaultId, PathStr(rel))
    /\ n.parent_id = parent_id
    /\ IsSome(n.children) <=> n.node_type = "FOLDER"
    /\ n.content = None
    /\ n.node_type = KindOfEntry(f, loc, n.name)

RECURSIVE DescribeEntries(_, _, _, _, _)
DescribeEntries(f, nodes, top, rel, parent_id) ==
    \A k \in 1..Len(nodes) :
        /\ DescribesEntry(f, nodes[k], top \o rel \o << nodes[k].name >>,
                          rel \o << nodes[k].name >>, parent_id)
        /\ IsSome(nodes[k].children) =>
              DescribeEntries(f, Unwrap(nodes[k].children), top,
                              rel \o << nodes[k].name >>, Some(nodes[k].id))

NodesDescribeEntries(ord) ==
    (vaults.kind = "array" /\ Scannable(fs, vaults, VaultId) # {}) =>
        (load_tree(fs, vaults, trees, VaultId, ord).ok =>
            DescribeEntries(fs, load_tree(fs, vaults, trees, VaultId, ord).val.nodes,
                            ScannedLoc(fs, vaults, VaultId), << >>, None))

\* C24: every node of the tree load_tree returns for the path-backed vault
\* has the id "V:" followed by the path of its entry relative to the vault
\* root, components joined by '/'; no parent id at the root and otherwise
\* the id of the folder that lists it; children exactly when its kind is
\* FOLDER; no content; and the kind FOLDER for a directory, CANVAS for a
\* file whose name ends in ".canvas", FILE for any other file.
C24_NodesDescribeEntries == NodesDescribeEntries(WideOrder)

\* The directories of the vault the scan has to list that it cannot list:
\* the vault directory and every directory below it with no hidden
\* component on the way.
DeniedVisible(f) ==
    {l \in DOMAIN f : /\ Under(l, VaultLoc)
                      /\ f[l] = DeniedDir
                      /\ ~HiddenLoc(l)}

TargetIsFile(f, p, n) ==
    /\ VaultPath(vaults, VaultId).ok
    /\ PathExists(f, FolderTarget(p, n))
    /\ ~PathIsDir(f, FolderTarget(p, n))
TargetText(f, p, n) == FsReadToString(f, FolderTarget(p, n))
FileOnce(f, p, n, k) == create_node_cmd(f, vaults, VaultId, p, n, k)

\* C26: for every parent id, name and kind FILE or CANVAS, a
\* create_node_cmd whose target is an existing file succeeds, the file is
\* empty afterwards whatever it held, and the load_file_content of the
\* returned id that follows returns the empty content.
C26_CreateOverFileTruncates ==
    \A p \in ParentInputs, n \in NameInputs, k \in KindInputs \ {"FOLDER"} :
        TargetIsFile(fs, p, n) =>
            /\ FileOnce(fs, p, n, k).res.ok
            /\ TargetText(FileOnce(fs, p, n, k).fs, p, n) = Ok(EmptyText)
            /\ load_file_content(FileOnce(fs, p, n, k).fs, vaults, trees, contents,
                                 FileOnce(fs, p, n, k).res.val).res = Ok(EmptyText)

\* The file /v/a/B holds a text that was saved, and a create with its
\* parent and name is about to empty it.
C26_Witness ==
    /\ TargetIsFile(fs, Some(IdOf(NameA)), NameB)
    /\ TargetText(fs, Some(IdOf(NameA)), NameB) = Ok(Plain("t1"))
    /\ load_file_content(fs, vaults, trees, contents, IdOf(Sub(NameA, NameB))).res
          = Ok(Plain("t1"))
    /\ FileOnce(fs, Some(IdOf(NameA)), NameB, "CANVAS").fs # fs

\* The kinds load_tree reports, under the order ord of read_dir, for the
\* entry a create below parent id p with name n and kind k has made.
KindsOf(nodes, id) == {x.node_type : x \in {y \in nodes : y.id = id}}
ReportedAfter(r, ord) ==
    KindsOf(NodesOf(load_tree(r.fs, vaults, trees, VaultId, ord)), r.res.val)
ReportedKinds(p, n, k, ord) == ReportedAfter(FileOnce(fs, p, n, k), ord)

\* A name that is some stem followed by ".canvas".
HasCanvasExtension(n) == \E j \in 0..Len(n) : n = SubSeq(n, 1, j) \o DotCanvas

\* The kind of a created entry as its shape and its name give it.
KindOnDisk(n, k) ==
    IF k = "FOLDER" THEN "FOLDER"
    ELSE IF HasCanvasExtension(n) THEN "CANVAS" ELSE "FILE"

\* C27 as stated: for every parent id, name and kind, the node load_tree
\* reports for the entry a create_node_cmd that succeeded has made has the
\* kind that was passed to create_node_cmd.
C27_KindSurvivesCreate ==
    \A p \in ParentInputs, n \in NameInputs, k \in KindInputs, o \in OrderInputs :
        FileOnce(fs, p, n, k).res.ok => ReportedKinds(p, n, k, o) \subseteq {k}

\* C27, amended: the node load_tree reports for the entry a create_node_cmd
\* that succeeded has made has the kind FOLDER when FOLDER was passed, and
\* otherwise CANVAS when the name ends in ".canvas" and FILE when it does
\* not, whichever of FILE and CANVAS was passed.
C27_KindFromShapeAndName ==
    \A p \in ParentInputs, n \in NameInputs, k \in KindInputs, o \in OrderInputs :
        FileOnce(fs, p, n, k).res.ok =>
            ReportedKinds(p, n, k, o) \subseteq {KindOnDisk(n, k)}

\* The vault holds a file without the extension and a folder; a CANVAS
\* created under the name "a" below the folder is reported, as a FILE, and
\* a FILE created under the name "c.canvas" is reported as a CANVAS.
C27_Witness ==
    /\ IsDirAt(fs, VaultLoc \o << NameA >>)
    /\ IsFileAt(fs, VaultLoc \o << NameB >>)
    /\ ReportedKinds(Some(IdOf(NameA)), NameA, "CANVAS", FirstOrder) = {"FILE"}
    /\ ReportedKinds(None, NameCanvas, "FILE", FirstOrder) = {"CANVAS"}
    /\ ReportedKinds(None, NameB, "FILE", FirstOrder) = {"FILE"}

\* The filesystem after load_file_content(file_id) on filesystem f.
AfterLoad(f, file_id) == load_file_content(f, vaults, trees, contents, file_id).fs

\* <vault>/.focosx/contents
ContentsLoc == VaultLoc \o << DotFocosx, ContentsName >>

\* Filesystems f and g agree everywhere but at location loc.
SameBut(f, g, loc) ==
    \A l \in (DOMAIN f \cup DOMAIN g) \ {loc} :
        l \in DOMAIN f /\ l \in DOMAIN g /\ f[l] = g[l]

=============================================================================
